---- MODULE Spec2Model ----
(***************************************************************************)
(* discord-sync-commands: one synchronization pass of index.js, run by a   *)
(* caller against a remote command registry (the Discord application       *)
(* command store reached through client.application.commands).             *)
(*                                                                         *)
(* A JavaScript `undefined` property is the empty sequence None, a         *)
(* property that is set is the one-element sequence Some(v); `null` is     *)
(* the value "null".                                                       *)
(***************************************************************************)
EXTENDS Integers, Sequences, FiniteSets, TLC

VARIABLES
    store,          \* remote registry: scope -> sequence of registered commands
    nextId,         \* next identifier the remote registry assigns
    clientReady,    \* client.isReady()
    listeners,      \* the client's one-shot ClientReady listeners: the pass each resumes
    client,         \* the caller's first argument: is it a Client instance
    commands,       \* the caller's second argument
    options,        \* the caller's third argument
    pass,           \* per invocation: the frame of the async function
    calls           \* per invocation: the remote-store calls it made, in order

vars == <<store, nextId, clientReady, listeners, client, commands, options, pass, calls>>

----------------------------------------------------------------------------
(* Bounds and input domains *)

MaxDesired == 2

MaxRegistered == 2

PassIds == {1, 2}

Scopes == {"global", "g1"}

None == <<>>
Some(v) == <<v>>

\* RESTJSONErrorCodes.MissingAccess
MissingAccess == 50001

Opt(n, d) == [name |-> n, description |-> d]

Def(n, d, nsfw, dmp, opts) ==
    [name |-> n, description |-> d, nsfw |-> nsfw,
     defaultMemberPermissions |-> dmp, options |-> opts,
     nameLocalizations |-> None, dmPermission |-> None]

\* A definition that also declares its name localizations and dmPermission.
Localized(def, loc, dm) ==
    [def EXCEPT !.nameLocalizations = Some(loc), !.dmPermission = Some(dm)]

\* Command definitions a caller may declare.
Catalog ==
    { Def("a", "A", None, None, None),
      Def("a", "B", None, None, None),
      Def("b", "A", Some(FALSE), Some("null"), Some(<<>>)),
      Def("c", "A", Some(TRUE), Some("null"), Some(<<Opt("x", "X"), Opt("y", "Y")>>)) }

RECURSIVE SeqsUpTo(_, _)
SeqsUpTo(S, n) ==
    IF n = 0 THEN {<<>>}
    ELSE LET shorter == SeqsUpTo(S, n - 1)
         IN  shorter \cup { Append(s, x) : s \in {t \in shorter : Len(t) = n - 1}, x \in S }

DesiredLists == SeqsUpTo(Catalog, MaxDesired)

----------------------------------------------------------------------------
(* The remote registry *)

\* What the registry stores for a definition: absent nsfw, permissions and
\* options are stored as their defaults.
Registered(def, id) ==
    [id |-> id, name |-> def.name, description |-> def.description,
     nsfw |-> IF def.nsfw = None THEN Some(FALSE) ELSE def.nsfw,
     defaultMemberPermissions |->
        IF def.defaultMemberPermissions = None THEN Some("null")
        ELSE def.defaultMemberPermissions,
     options |-> IF def.options = None THEN Some(<<>>) ELSE def.options,
     nameLocalizations |->
        IF def.nameLocalizations = None THEN Some("null") ELSE def.nameLocalizations,
     dmPermission |-> IF def.dmPermission = None THEN Some(TRUE) ELSE def.dmPermission]

\* An edit patches the fields the definition carries.
Edited(prev, def) ==
    [id |-> prev.id, name |-> def.name, description |-> def.description,
     nsfw |-> IF def.nsfw = None THEN prev.nsfw ELSE def.nsfw,
     defaultMemberPermissions |->
        IF def.defaultMemberPermissions = None THEN prev.defaultMemberPermissions
        ELSE def.defaultMemberPermissions,
     options |-> IF def.options = None THEN prev.options ELSE def.options,
     nameLocalizations |->
        IF def.nameLocalizations = None THEN prev.nameLocalizations
        ELSE def.nameLocalizations,
     dmPermission |-> IF def.dmPermission = None THEN prev.dmPermission ELSE def.dmPermission]

NamesOf(s) == { s[k].name : k \in 1..Len(s) }

IdsOf(s) == { s[k].id : k \in 1..Len(s) }

UniqueNames(s) == \A j, k \in 1..Len(s) : s[j].name = s[k].name => j = k

\* create: registers the definition; a command of the same name is overwritten.
RegistryCreate(reg, def, id) ==
    IF def.name \in NamesOf(reg)
    THEN [k \in 1..Len(reg) |->
            IF reg[k].name = def.name THEN Registered(def, reg[k].id) ELSE reg[k]]
    ELSE Append(reg, Registered(def, id))

RegistryDelete(reg, id) == SelectSeq(reg, LAMBDA c : c.id # id)

RegistryEdit(reg, id, def) ==
    [k \in 1..Len(reg) |-> IF reg[k].id = id THEN Edited(reg[k], def) ELSE reg[k]]

\* Registries the remote service may hold when the program starts.
InitialRegistries ==
    { r \in SeqsUpTo({ Registered(d, 0) : d \in Catalog }, MaxRegistered) : UniqueNames(r) }

WithIds(reg, base) == [k \in 1..Len(reg) |-> [reg[k] EXCEPT !.id = base + k]]

\* The registry of the guild scope at program start.
InitialGuildRegistry == <<Registered(Def("a", "B", None, None, None), 0)>>

\* Errors the remote service raises.
RemoteErrors ==
    { [origin |-> "remote", code |-> MissingAccess, message |-> "Missing Access"],
      [origin |-> "remote", code |-> 0, message |-> "Internal Server Error"] }

----------------------------------------------------------------------------
(* index.js: the pure parts *)

\* A faulty Ascending: the kept indices come out in reverse order.
RECURSIVE Descending(_)
Descending(S) ==
    IF S = {} THEN <<>>
    ELSE LET m == CHOOSE x \in S : \A y \in S : x >= y
         IN  <<m>> \o Descending(S \ {m})

\* Array.filter keeps the input order: the kept indices, in increasing order.
RECURSIVE Ascending(_)
Ascending(S) ==
    IF S = {} THEN <<>>
    ELSE LET m == CHOOSE x \in S : \A y \in S : x <= y
         IN  <<m>> \o Ascending(S \ {m})

\* coll.some((c) => c.name === name)
some(coll, name) == \E k \in 1..Len(coll) : coll[k].name = name

\* coll.find((c) => c.name === name): the first match
find(coll, name) ==
    coll[CHOOSE k \in 1..Len(coll) :
            /\ coll[k].name = name
            /\ \A j \in 1..(k - 1) : coll[j].name # name]

\* options ?? []
Coalesce(opts) == IF opts = None THEN <<>> ELSE opts[1]

optionEquals(existing, option) ==
    /\ existing.name = option.name
    /\ existing.description = option.description

\* ApplicationCommand.optionsEqual(existing, options, enforceOptionOrder): with
\* the order enforced the options are compared position by position, otherwise
\* they are looked up by name, in a map where the later of two equal names wins.
optionsEqual(existing, opts, enforceOptionOrder) ==
    /\ Len(existing) = Len(opts)
    /\ IF enforceOptionOrder
       THEN \A k \in 1..Len(existing) : optionEquals(existing[k], opts[k])
       ELSE \A k \in 1..Len(existing) :
               \E j \in 1..Len(opts) :
                  /\ opts[j].name = existing[k].name
                  /\ \A l \in (j + 1)..Len(opts) : opts[l].name # existing[k].name
                  /\ optionEquals(existing[k], opts[j])

\* A faulty isCommandModified: the options are compared with their order
\* enforced.
isCommandModifiedOrdered(previousCommand, newCommand) ==
    IF previousCommand.description # newCommand.description THEN TRUE
    ELSE IF previousCommand.defaultMemberPermissions # newCommand.defaultMemberPermissions THEN TRUE
    ELSE IF previousCommand.nsfw # newCommand.nsfw THEN TRUE
    ELSE ~optionsEqual(Coalesce(previousCommand.options), Coalesce(newCommand.options), TRUE)

\* Lines 149-156. optionsEqual is called with two arguments, so its third takes
\* its default: the option order is not enforced.
isCommandModified(previousCommand, newCommand) ==
    IF previousCommand.description # newCommand.description THEN TRUE
    ELSE IF previousCommand.defaultMemberPermissions # newCommand.defaultMemberPermissions THEN TRUE
    ELSE IF previousCommand.nsfw # newCommand.nsfw THEN TRUE
    ELSE ~optionsEqual(Coalesce(previousCommand.options), Coalesce(newCommand.options), FALSE)

\* A faulty newCommands: the filter keeps every desired command.
newCommandsUnfiltered(cmds, currentCommands) == Ascending(1..Len(cmds))

\* A faulty newCommands: of the desired commands of one name only the first is
\* kept.
newCommandsFirstOnly(cmds, currentCommands) ==
    Ascending({ k \in 1..Len(cmds) :
                  /\ ~some(currentCommands, cmds[k].name)
                  /\ \A h \in 1..(k - 1) : cmds[h].name # cmds[k].name })

\* The three work lists, as indices into the list they filter.
newCommands(cmds, currentCommands) ==
    Ascending({ k \in 1..Len(cmds) : ~some(currentCommands, cmds[k].name) })

\* A faulty deletedCommands: the filter keeps every snapshot command.
deletedCommandsUnfiltered(cmds, currentCommands) == Ascending(1..Len(currentCommands))

\* A faulty deletedCommands: of the snapshot commands no longer desired only
\* the first is kept.
deletedCommandsFirstOnly(cmds, currentCommands) ==
    Ascending({ k \in 1..Len(currentCommands) :
                  /\ ~some(cmds, currentCommands[k].name)
                  /\ \A h \in 1..(k - 1) : some(cmds, currentCommands[h].name) })

deletedCommands(cmds, currentCommands) ==
    Ascending({ k \in 1..Len(currentCommands) : ~some(cmds, currentCommands[k].name) })

updatedCommands(cmds, currentCommands) ==
    Ascending({ k \in 1..Len(cmds) : some(currentCommands, cmds[k].name) })

\* options.guildId ? { guildId } : {}
Scope(opts) == IF opts.guildId = "null" THEN "global" ELSE opts.guildId

\* A faulty Advance: the update loop edits without asking isCommandModified.
RECURSIVE AdvanceAlwaysEdit(_, _, _, _)
AdvanceAlwaysEdit(phase, k, cmds, currentCommands) ==
    IF phase = "create"
    THEN IF k <= Len(newCommands(cmds, currentCommands))
         THEN [pc |-> "await_create", i |-> k]
         ELSE AdvanceAlwaysEdit("delete", 1, cmds, currentCommands)
    ELSE IF phase = "delete"
    THEN IF k <= Len(deletedCommands(cmds, currentCommands))
         THEN [pc |-> "await_delete", i |-> k]
         ELSE AdvanceAlwaysEdit("update", 1, cmds, currentCommands)
    ELSE IF k <= Len(updatedCommands(cmds, currentCommands))
         THEN [pc |-> "await_edit", i |-> k]
         ELSE [pc |-> "returned", i |-> 0]

\* A faulty Advance: the update loop runs before the delete loop.
RECURSIVE AdvanceEditBeforeDelete(_, _, _, _)
AdvanceEditBeforeDelete(phase, k, cmds, currentCommands) ==
    IF phase = "create"
    THEN IF k <= Len(newCommands(cmds, currentCommands))
         THEN [pc |-> "await_create", i |-> k]
         ELSE AdvanceEditBeforeDelete("update", 1, cmds, currentCommands)
    ELSE IF phase = "delete"
    THEN IF k <= Len(deletedCommands(cmds, currentCommands))
         THEN [pc |-> "await_delete", i |-> k]
         ELSE [pc |-> "returned", i |-> 0]
    ELSE IF k <= Len(updatedCommands(cmds, currentCommands))
         THEN LET updatedCommand == cmds[updatedCommands(cmds, currentCommands)[k]]
                  previousCommand == find(currentCommands, updatedCommand.name)
              IN  IF isCommandModified(previousCommand, updatedCommand)
                  THEN [pc |-> "await_edit", i |-> k]
                  ELSE AdvanceEditBeforeDelete("update", k + 1, cmds, currentCommands)
         ELSE AdvanceEditBeforeDelete("delete", 1, cmds, currentCommands)

\* The next suspension point of the function body from position k of a phase:
\* the loops run on synchronously until a call is to be awaited, or to the return.
RECURSIVE Advance(_, _, _, _)
Advance(phase, k, cmds, currentCommands) ==
    IF phase = "create"
    THEN IF k <= Len(newCommands(cmds, currentCommands))
         THEN [pc |-> "await_create", i |-> k]
         ELSE Advance("delete", 1, cmds, currentCommands)
    ELSE IF phase = "delete"
    THEN IF k <= Len(deletedCommands(cmds, currentCommands))
         THEN [pc |-> "await_delete", i |-> k]
         ELSE Advance("update", 1, cmds, currentCommands)
    ELSE IF k <= Len(updatedCommands(cmds, currentCommands))
         THEN LET updatedCommand == cmds[updatedCommands(cmds, currentCommands)[k]]
                  previousCommand == find(currentCommands, updatedCommand.name)
              IN  IF isCommandModified(previousCommand, updatedCommand)
                  THEN [pc |-> "await_edit", i |-> k]
                  ELSE Advance("update", k + 1, cmds, currentCommands)
         ELSE [pc |-> "returned", i |-> 0]

\* The call a frame suspended at pc, i awaits.
CallAt(pc, i, cmds, currentCommands, scope) ==
    IF pc = "await_create"
    THEN LET k == newCommands(cmds, currentCommands)[i]
         IN  [op |-> "create", idx |-> k, name |-> cmds[k].name, id |-> 0,
              scope |-> scope, status |-> "pending"]
    ELSE IF pc = "await_delete"
    THEN LET k == deletedCommands(cmds, currentCommands)[i]
         IN  [op |-> "delete", idx |-> k, name |-> currentCommands[k].name,
              id |-> currentCommands[k].id, scope |-> scope, status |-> "pending"]
    ELSE LET k == updatedCommands(cmds, currentCommands)[i]
         IN  [op |-> "edit", idx |-> k, name |-> cmds[k].name,
              id |-> find(currentCommands, cmds[k].name).id,
              scope |-> scope, status |-> "pending"]

ResultRecord(f) ==
    [currentCommandCount |-> Len(f.currentCommands),
     newCommandCount |-> f.createdCount,
     deletedCommandCount |-> f.deletedCount,
     updatedCommandCount |-> f.updatedCommandCount]

----------------------------------------------------------------------------
(* index.js: module.exports, one frame per invocation *)

IdleFrame ==
    [pc |-> "idle", i |-> 0, currentCommands |-> <<>>,
     createdCount |-> 0, deletedCount |-> 0, updatedCommandCount |-> 0,
     ready |-> FALSE, raised |-> None, error |-> None, result |-> None]

Ended == {"returned", "thrown", "rejected"}

TypeError(msg) == [origin |-> "TypeError", code |-> 0, message |-> msg]

\* A faulty FetchCatch: every failure is rethrown as it is.
FetchCatchRethrow(err) == err

\* The .catch on the fetch: a missing-access failure becomes a new Error,
\* any other failure is rethrown as it is.
FetchCatch(err) ==
    IF err.code = MissingAccess
    THEN [origin |-> "Error", code |-> 0,
          message |-> "The client does not have the applications.commands scope authorized."]
    ELSE err

Settle(log, status) == [log EXCEPT ![Len(log)].status = status]

\* A faulty Resume: the create loop skips the commands that have been
\* registered since the fetch.
ResumeSkipsRegistered(p, f, phase, k, status) ==
    LET new == newCommands(commands.items, f.currentCommands)
        left == { j \in k..Len(new) :
                    commands.items[new[j]].name \notin NamesOf(store[Scope(options)]) }
        k2 == IF phase # "create" THEN k
              ELSE IF left = {} THEN Len(new) + 1
              ELSE CHOOSE j \in left : \A h \in left : j <= h
        nxt == Advance(phase, k2, commands.items, f.currentCommands)
        settled == Settle(calls[p], status)
    IN  /\ pass' = [pass EXCEPT ![p] =
                      IF nxt.pc = "returned"
                      THEN [f EXCEPT !.pc = "returned", !.i = 0,
                                     !.result = Some(ResultRecord(f))]
                      ELSE [f EXCEPT !.pc = nxt.pc, !.i = nxt.i]]
        /\ calls' = [calls EXCEPT ![p] =
                      IF nxt.pc = "returned" THEN settled
                      ELSE Append(settled,
                                  CallAt(nxt.pc, nxt.i, commands.items,
                                         f.currentCommands, Scope(options)))]

\* The frame f runs on from position k of a phase to its next await or to its
\* return; the call it was awaiting has settled with the given status.
Resume(p, f, phase, k, status) ==
    LET nxt == Advance(phase, k, commands.items, f.currentCommands)
        settled == Settle(calls[p], status)
    IN  /\ pass' = [pass EXCEPT ![p] =
                      IF nxt.pc = "returned"
                      THEN [f EXCEPT !.pc = "returned", !.i = 0,
                                     !.result = Some(ResultRecord(f))]
                      ELSE [f EXCEPT !.pc = nxt.pc, !.i = nxt.i]]
        /\ calls' = [calls EXCEPT ![p] =
                      IF nxt.pc = "returned" THEN settled
                      ELSE Append(settled,
                                  CallAt(nxt.pc, nxt.i, commands.items,
                                         f.currentCommands, Scope(options)))]

\* The registered ClientReady listeners that resume pass p.
Listening(p) == { k \in 1..Len(listeners) : listeners[k] = p }

\* The caller awaits one pass before it starts the next.
Sequential(p) == \A q \in PassIds : q < p => pass[q].pc \in Ended

\* A faulty Invoke: the commands argument is not checked.
InvokeUnchecked(p) ==
    /\ pass[p].pc = "idle"
    /\ IF ~client
       THEN /\ pass' = [pass EXCEPT ![p] = [@ EXCEPT !.pc = "rejected",
                           !.error = Some(TypeError("Client instance is required"))]]
            /\ UNCHANGED listeners
       ELSE /\ pass' = [pass EXCEPT ![p] = [@ EXCEPT !.pc = "await_ready",
                                                     !.ready = clientReady]]
            /\ listeners' = IF clientReady THEN listeners ELSE Append(listeners, p)
    /\ UNCHANGED <<store, nextId, clientReady, client, commands, options, calls>>

\* A faulty Invoke: the listener is registered whether or not the client is ready.
InvokeAlwaysListens(p) ==
    /\ pass[p].pc = "idle"
    /\ IF ~client
       THEN /\ pass' = [pass EXCEPT ![p] = [@ EXCEPT !.pc = "rejected",
                           !.error = Some(TypeError("Client instance is required"))]]
            /\ UNCHANGED listeners
       ELSE IF ~commands.array
       THEN /\ pass' = [pass EXCEPT ![p] = [@ EXCEPT !.pc = "rejected",
                           !.error = Some(TypeError("Commands must be an array"))]]
            /\ UNCHANGED listeners
       ELSE /\ pass' = [pass EXCEPT ![p] = [@ EXCEPT !.pc = "await_ready"]]
            /\ listeners' = Append(listeners, p)
    /\ UNCHANGED <<store, nextId, clientReady, client, commands, options, calls>>

\* Lines 27-50: the argument checks and the ready gate.
Invoke(p) ==
    /\ pass[p].pc = "idle"
    /\ IF ~client
       THEN /\ pass' = [pass EXCEPT ![p] = [@ EXCEPT !.pc = "rejected",
                           !.error = Some(TypeError("Client instance is required"))]]
            /\ UNCHANGED listeners
       ELSE IF ~commands.array
       THEN /\ pass' = [pass EXCEPT ![p] = [@ EXCEPT !.pc = "rejected",
                           !.error = Some(TypeError("Commands must be an array"))]]
            /\ UNCHANGED listeners
       ELSE /\ pass' = [pass EXCEPT ![p] = [@ EXCEPT !.pc = "await_ready",
                                                     !.ready = clientReady]]
            /\ listeners' = IF clientReady THEN listeners ELSE Append(listeners, p)
    /\ UNCHANGED <<store, nextId, clientReady, client, commands, options, calls>>

Call(p) == Sequential(p) /\ Invoke(p)

\* The client emits ClientReady: every one-shot listener runs and is removed.
ClientReadyEvent ==
    /\ ~clientReady
    /\ clientReady' = TRUE
    /\ listeners' = <<>>
    /\ pass' = [p \in PassIds |->
                  IF Listening(p) # {} THEN [pass[p] EXCEPT !.ready = TRUE] ELSE pass[p]]
    /\ UNCHANGED <<store, nextId, client, commands, options, calls>>

\* A faulty Fetch: the snapshot is requested without awaiting the ready gate.
FetchUngated(p) ==
    /\ pass[p].pc = "await_ready"
    /\ pass' = [pass EXCEPT ![p] = [@ EXCEPT !.pc = "await_fetch"]]
    /\ calls' = [calls EXCEPT ![p] =
                   Append(@, [op |-> "fetch", idx |-> 0, name |-> "", id |-> 0,
                              scope |-> Scope(options), status |-> "pending"])]
    /\ UNCHANGED <<store, nextId, clientReady, listeners, client, commands, options>>

\* Lines 50-58: past the ready gate, the snapshot is requested.
Fetch(p) ==
    /\ pass[p].pc = "await_ready"
    /\ pass[p].ready
    /\ pass' = [pass EXCEPT ![p] = [@ EXCEPT !.pc = "await_fetch"]]
    /\ calls' = [calls EXCEPT ![p] =
                   Append(@, [op |-> "fetch", idx |-> 0, name |-> "", id |-> 0,
                              scope |-> Scope(options), status |-> "pending"])]
    /\ UNCHANGED <<store, nextId, clientReady, listeners, client, commands, options>>

FetchOk(p) ==
    /\ pass[p].pc = "await_fetch"
    /\ Resume(p, [pass[p] EXCEPT !.currentCommands = store[Scope(options)]],
              "create", 1, "ok")
    /\ UNCHANGED <<store, nextId, clientReady, listeners, client, commands, options>>

\* A faulty FetchFail: the failure is swallowed and the pass goes on with an
\* empty snapshot.
FetchFailSwallowed(p) ==
    /\ pass[p].pc = "await_fetch"
    /\ Resume(p, pass[p], "create", 1, "failed")
    /\ UNCHANGED <<store, nextId, clientReady, listeners, client, commands, options>>

\* Lines 59-64 and 137-140: the fetch fails, the pass throws. The .catch
\* callback ends after `throw err`; the outer catch rethrows what it caught.
FetchFail(p) ==
    /\ pass[p].pc = "await_fetch"
    /\ \E err \in RemoteErrors :
          pass' = [pass EXCEPT ![p] = [@ EXCEPT !.pc = "thrown",
                                                !.raised = Some(err),
                                                !.error = Some(FetchCatch(err))]]
    /\ calls' = [calls EXCEPT ![p] = Settle(@, "failed")]
    /\ UNCHANGED <<store, nextId, clientReady, listeners, client, commands, options>>

\* A faulty CreateOk: the command created is added to the snapshot of the pass.
CreateOkCaches(p) ==
    /\ pass[p].pc = "await_create"
    /\ LET f == pass[p]
           def == commands.items[newCommands(commands.items, f.currentCommands)[f.i]]
           sc == Scope(options)
       IN  /\ store' = [store EXCEPT ![sc] = RegistryCreate(@, def, nextId)]
           /\ nextId' = IF def.name \in NamesOf(store[sc]) THEN nextId ELSE nextId + 1
           /\ Resume(p, [f EXCEPT !.createdCount = @ + 1,
                                  !.currentCommands = Append(@, Registered(def, nextId))],
                     "create", f.i, "ok")
    /\ UNCHANGED <<clientReady, listeners, client, commands, options>>

\* A faulty CreateOk: the command is registered globally whatever the scope of
\* the pass.
CreateOkGlobal(p) ==
    /\ pass[p].pc = "await_create"
    /\ LET f == pass[p]
           def == commands.items[newCommands(commands.items, f.currentCommands)[f.i]]
       IN  /\ store' = [store EXCEPT !["global"] = RegistryCreate(@, def, nextId)]
           /\ nextId' = IF def.name \in NamesOf(store["global"]) THEN nextId ELSE nextId + 1
           /\ Resume(p, [f EXCEPT !.createdCount = @ + 1], "create", f.i + 1, "ok")
    /\ UNCHANGED <<clientReady, listeners, client, commands, options>>

\* Lines 75-83
CreateOk(p) ==
    /\ pass[p].pc = "await_create"
    /\ LET f == pass[p]
           def == commands.items[newCommands(commands.items, f.currentCommands)[f.i]]
           sc == Scope(options)
       IN  /\ store' = [store EXCEPT ![sc] = RegistryCreate(@, def, nextId)]
           /\ nextId' = IF def.name \in NamesOf(store[sc]) THEN nextId ELSE nextId + 1
           /\ Resume(p, [f EXCEPT !.createdCount = @ + 1], "create", f.i + 1, "ok")
    /\ UNCHANGED <<clientReady, listeners, client, commands, options>>

\* A faulty CreateFail: the failure is not caught in the loop and ends the pass.
CreateFailAborts(p) ==
    /\ pass[p].pc = "await_create"
    /\ pass' = [pass EXCEPT ![p] = [@ EXCEPT !.pc = "thrown",
                  !.error = Some([origin |-> "remote", code |-> 0,
                                  message |-> "Internal Server Error"])]]
    /\ calls' = [calls EXCEPT ![p] = Settle(@, "failed")]
    /\ UNCHANGED <<store, nextId, clientReady, listeners, client, commands, options>>

\* A faulty CreateFail: the counter is incremented although the call failed.
CreateFailCounted(p) ==
    /\ pass[p].pc = "await_create"
    /\ Resume(p, [pass[p] EXCEPT !.createdCount = @ + 1], "create", pass[p].i + 1, "failed")
    /\ UNCHANGED <<store, nextId, clientReady, listeners, client, commands, options>>

\* A faulty CreateFail: a create that failed is issued once more.
CreateFailRetried(p) ==
    /\ pass[p].pc = "await_create"
    /\ LET tried == { j \in 1..Len(calls[p]) :
                       /\ calls[p][j].op = "create"
                       /\ calls[p][j].idx = calls[p][Len(calls[p])].idx }
       IN  Resume(p, pass[p], "create",
                  IF Cardinality(tried) = 1 THEN pass[p].i ELSE pass[p].i + 1, "failed")
    /\ UNCHANGED <<store, nextId, clientReady, listeners, client, commands, options>>

CreateFail(p) ==
    /\ pass[p].pc = "await_create"
    /\ Resume(p, pass[p], "create", pass[p].i + 1, "failed")
    /\ UNCHANGED <<store, nextId, clientReady, listeners, client, commands, options>>

\* Lines 94-102
DeleteOk(p) ==
    /\ pass[p].pc = "await_delete"
    /\ LET f == pass[p]
           deletedCommand ==
               f.currentCommands[deletedCommands(commands.items, f.currentCommands)[f.i]]
           sc == Scope(options)
       IN  /\ deletedCommand.id \in IdsOf(store[sc])
           /\ store' = [store EXCEPT ![sc] = RegistryDelete(@, deletedCommand.id)]
           /\ Resume(p, [f EXCEPT !.deletedCount = @ + 1], "delete", f.i + 1, "ok")
    /\ UNCHANGED <<nextId, clientReady, listeners, client, commands, options>>

DeleteFail(p) ==
    /\ pass[p].pc = "await_delete"
    /\ Resume(p, pass[p], "delete", pass[p].i + 1, "failed")
    /\ UNCHANGED <<store, nextId, clientReady, listeners, client, commands, options>>

\* Lines 113-125
EditOk(p) ==
    /\ pass[p].pc = "await_edit"
    /\ LET f == pass[p]
           updatedCommand ==
               commands.items[updatedCommands(commands.items, f.currentCommands)[f.i]]
           previousCommand == find(f.currentCommands, updatedCommand.name)
           sc == Scope(options)
       IN  /\ previousCommand.id \in IdsOf(store[sc])
           /\ store' = [store EXCEPT ![sc] =
                          RegistryEdit(@, previousCommand.id, updatedCommand)]
           /\ Resume(p, [f EXCEPT !.updatedCommandCount = @ + 1], "update", f.i + 1, "ok")
    /\ UNCHANGED <<nextId, clientReady, listeners, client, commands, options>>

EditFail(p) ==
    /\ pass[p].pc = "await_edit"
    /\ Resume(p, pass[p], "update", pass[p].i + 1, "failed")
    /\ UNCHANGED <<store, nextId, clientReady, listeners, client, commands, options>>

----------------------------------------------------------------------------
(* The program *)

InitOver(lists, registries) ==
    /\ \E g \in registries :
          /\ store = [s \in Scopes |->
                        IF s = "global" THEN WithIds(g, 0)
                        ELSE WithIds(InitialGuildRegistry, Len(g))]
          /\ nextId = Len(g) + Len(InitialGuildRegistry) + 1
    /\ clientReady \in BOOLEAN
    /\ listeners = <<>>
    /\ client \in BOOLEAN
    /\ commands \in { [array |-> TRUE, items |-> d] : d \in lists }
                       \cup { [array |-> FALSE, items |-> <<>>] }
    /\ options \in { [guildId |-> g] : g \in {"null", "g1"} }
    /\ client \/ commands.items = <<>>
    /\ pass = [p \in PassIds |-> IdleFrame]
    /\ calls = [p \in PassIds |-> <<>>]

Init == InitOver(DesiredLists, InitialRegistries)

Step(p) ==
    \/ Fetch(p)
    \/ FetchOk(p)
    \/ FetchFail(p)
    \/ CreateOk(p)
    \/ CreateFail(p)
    \/ DeleteOk(p)
    \/ DeleteFail(p)
    \/ EditOk(p)
    \/ EditFail(p)

\* One invocation of the exported function.
Next ==
    \/ ClientReadyEvent
    \/ Call(1)
    \/ \E p \in PassIds : Step(p)

Spec == Init /\ [][Next]_vars

\* The caller invokes the function again once the first pass has ended.
CallAgain == Call(2)

NextRepeat ==
    \/ Next
    \/ CallAgain

SpecRepeat == Init /\ [][NextRepeat]_vars

\* The client becomes ready in the end, every call settles in the end and a
\* continuation that can run is run.
Fairness ==
    /\ WF_vars(ClientReadyEvent)
    /\ \A p \in PassIds : WF_vars(Step(p))

\* A smaller catalog for the runs with fairness or with two passes at once:
\* one command that is created or edited and one that is created or deleted.
SmallCatalog ==
    { Def("a", "A", None, None, None),
      Def("b", "A", Some(FALSE), Some("null"), Some(<<>>)) }

InitSmall ==
    InitOver(SeqsUpTo(SmallCatalog, MaxDesired),
             { r \in SeqsUpTo({ Registered(d, 0) : d \in SmallCatalog }, MaxRegistered) :
                  UniqueNames(r) })

SpecFair == InitSmall /\ [][Next]_vars /\ Fairness

\* Definitions of one command that differ in one field each, every field but
\* the one in question declared, and a second command.
Base == Def("a", "A", Some(FALSE), Some("null"), Some(<<Opt("x", "X"), Opt("y", "Y")>>))

DetectCatalog ==
    { Localized(Base, "en", TRUE),
      Localized(Base, "fr", TRUE),
      Localized(Base, "en", FALSE),
      Localized([Base EXCEPT !.nsfw = None], "en", TRUE),
      Localized([Base EXCEPT !.options = Some(<<Opt("y", "Y"), Opt("x", "X")>>)], "en", TRUE),
      Def("b", "A", Some(FALSE), Some("null"), Some(<<>>)) }

InitDetect ==
    InitOver(SeqsUpTo(DetectCatalog, MaxDesired),
             { r \in SeqsUpTo({ Registered(d, 0) : d \in DetectCatalog }, MaxRegistered) :
                  UniqueNames(r) })

SpecDetect == InitDetect /\ [][Next]_vars

\* Two calls with the same arguments, the second made without awaiting the
\* first.
NextRace ==
    \/ ClientReadyEvent
    \/ \E p \in PassIds : Invoke(p)
    \/ \E p \in PassIds : Step(p)

SpecRace == InitSmall /\ [][NextRace]_vars

----------------------------------------------------------------------------
(* Reading a pass: its snapshot, its calls *)

Desired == commands.items

Snapshot(p) == pass[p].currentCommands

Returned(p) == pass[p].pc = "returned"

CallIdx(p, op) == { j \in 1..Len(calls[p]) : calls[p][j].op = op }

Mutations(p) == { j \in 1..Len(calls[p]) : calls[p][j].op # "fetch" }

OkCount(p, op) == Cardinality({ j \in CallIdx(p, op) : calls[p][j].status = "ok" })

FetchSucceeded(p) == calls[p] # <<>> /\ calls[p][1].status = "ok"

\* The snapshot command a desired name is paired with: the first of that name.
PairOf(p, name) ==
    Snapshot(p)[CHOOSE k \in 1..Len(Snapshot(p)) :
                   /\ Snapshot(p)[k].name = name
                   /\ \A j \in 1..(k - 1) : Snapshot(p)[j].name # name]

----------------------------------------------------------------------------
(* C1 *)

\* C1: a create call is only ever issued for a desired command whose name is
\* absent from the fetched snapshot, and when the pass has returned exactly the
\* desired commands with no same-named snapshot command have received one
\* create call each.
C1_CreateIffAbsent ==
    \A p \in PassIds :
       /\ \A j \in CallIdx(p, "create") :
             /\ calls[p][j].idx \in 1..Len(Desired)
             /\ calls[p][j].name = Desired[calls[p][j].idx].name
             /\ calls[p][j].name \notin NamesOf(Snapshot(p))
       /\ Returned(p) =>
             \A k \in 1..Len(Desired) :
                Cardinality({ j \in CallIdx(p, "create") : calls[p][j].idx = k })
                   = IF Desired[k].name \in NamesOf(Snapshot(p)) THEN 0 ELSE 1

\* A returned pass that created one desired command and left alone another
\* whose name the snapshot held.
C1_Witness ==
    \E p \in PassIds :
       /\ Returned(p)
       /\ CallIdx(p, "create") # {}
       /\ \E k \in 1..Len(Desired) : Desired[k].name \in NamesOf(Snapshot(p))

----------------------------------------------------------------------------
(* C2 *)

\* C2: a delete call is only ever issued for a snapshot command whose name no
\* desired command has, and when the pass has returned exactly those snapshot
\* commands have received one delete call each.
C2_DeleteIffUndesired ==
    \A p \in PassIds :
       /\ \A j \in CallIdx(p, "delete") :
             /\ calls[p][j].idx \in 1..Len(Snapshot(p))
             /\ calls[p][j].id = Snapshot(p)[calls[p][j].idx].id
             /\ calls[p][j].name = Snapshot(p)[calls[p][j].idx].name
             /\ calls[p][j].name \notin NamesOf(Desired)
       /\ Returned(p) =>
             \A k \in 1..Len(Snapshot(p)) :
                Cardinality({ j \in CallIdx(p, "delete") : calls[p][j].idx = k })
                   = IF Snapshot(p)[k].name \in NamesOf(Desired) THEN 0 ELSE 1

\* A returned pass that deleted one snapshot command and kept another that is
\* desired.
C2_Witness ==
    \E p \in PassIds :
       /\ Returned(p)
       /\ CallIdx(p, "delete") # {}
       /\ \E k \in 1..Len(Snapshot(p)) : Snapshot(p)[k].name \in NamesOf(Desired)

----------------------------------------------------------------------------
(* C3 *)

PairsAllEqual(p) ==
    \A k \in 1..Len(Desired) :
       Desired[k].name \in NamesOf(Snapshot(p)) =>
          ~isCommandModified(PairOf(p, Desired[k].name), Desired[k])

EditIffModified(p) ==
    /\ \A j \in CallIdx(p, "edit") :
          /\ calls[p][j].idx \in 1..Len(Desired)
          /\ calls[p][j].name = Desired[calls[p][j].idx].name
          /\ calls[p][j].name \in NamesOf(Snapshot(p))
          /\ calls[p][j].id = PairOf(p, calls[p][j].name).id
          /\ isCommandModified(PairOf(p, calls[p][j].name), Desired[calls[p][j].idx])
    /\ Returned(p) =>
          \A k \in 1..Len(Desired) :
             Desired[k].name \in NamesOf(Snapshot(p)) =>
                Cardinality({ j \in CallIdx(p, "edit") : calls[p][j].idx = k })
                   = IF isCommandModified(PairOf(p, Desired[k].name), Desired[k])
                     THEN 1 ELSE 0

\* C3 as stated: an edit call is issued for a name-sharing pair exactly when
\* isCommandModified reports a difference, and a pass in which every desired
\* name matches a snapshot name and every pair is equal issues no create, delete
\* or edit call.
C3_Original ==
    \A p \in PassIds :
       /\ EditIffModified(p)
       /\ (Returned(p) /\ NamesOf(Desired) \subseteq NamesOf(Snapshot(p)) /\ PairsAllEqual(p))
             => Mutations(p) = {}

\* C3, amended: an edit call is issued for a name-sharing pair exactly when
\* isCommandModified reports a difference, and a pass in which the desired names
\* and the snapshot names are the same set and every pair is equal issues no
\* create, delete or edit call.
C3_EditIffModified ==
    \A p \in PassIds :
       /\ EditIffModified(p)
       /\ (Returned(p) /\ NamesOf(Desired) = NamesOf(Snapshot(p)) /\ PairsAllEqual(p))
             => Mutations(p) = {}

\* A returned pass over a non-empty desired list whose names are the snapshot's
\* and whose pairs are all equal.
C3_Witness ==
    \E p \in PassIds :
       /\ Returned(p)
       /\ Desired # <<>>
       /\ NamesOf(Desired) = NamesOf(Snapshot(p))
       /\ PairsAllEqual(p)

----------------------------------------------------------------------------
(* C4 *)

CleanPass(p) ==
    /\ Returned(p)
    /\ \A j \in 1..Len(calls[p]) : calls[p][j].status = "ok"

\* C4: after a first pass in which every call succeeded, a second pass with the
\* same desired list issues no create, delete or edit call and returns the
\* counts 0/0/0.
C4_Idempotent ==
    CleanPass(1) =>
       /\ Mutations(2) = {}
       /\ Returned(2) =>
             /\ pass[2].result[1].newCommandCount = 0
             /\ pass[2].result[1].deletedCommandCount = 0
             /\ pass[2].result[1].updatedCommandCount = 0

----------------------------------------------------------------------------
(* C5 *)

BadArguments == ~client \/ ~commands.array

\* C5: with a client that is no Client instance or commands that are no array
\* the pass never leaves the argument checks, and a rejected pass carries a
\* TypeError, holds no ready listener, has not passed the ready gate and has
\* made no remote-store call.
C5_ValidationBeforeIO ==
    \A p \in PassIds :
       /\ BadArguments => pass[p].pc \in {"idle", "rejected"}
       /\ pass[p].pc = "rejected" =>
             /\ BadArguments
             /\ pass[p].error # None
             /\ pass[p].error[1].origin = "TypeError"
             /\ pass[p].result = None
             /\ calls[p] = <<>>
             /\ Listening(p) = {}
             /\ ~pass[p].ready

\* A pass rejected while the client was not ready.
C5_Witness ==
    \E p \in PassIds :
       /\ pass[p].pc = "rejected"
       /\ ~clientReady
       /\ client
       /\ ~commands.array

----------------------------------------------------------------------------
(* C6 *)

FetchFailed(p) == calls[p] # <<>> /\ calls[p][1].status = "failed"

\* C6: a pass whose fetch failed has thrown, has no result record and has made
\* no call but the fetch; and no step of a pass up to and including the failure
\* of its fetch changes the remote registry.
C6_FetchFailureIsFatal ==
    /\ [](\A p \in PassIds :
            /\ FetchFailed(p) =>
                  /\ pass[p].pc = "thrown"
                  /\ pass[p].error # None
                  /\ pass[p].result = None
                  /\ Len(calls[p]) = 1
            /\ pass[p].pc = "thrown" => FetchFailed(p))
    /\ [][\A p \in PassIds :
            (pass'[p] # pass[p]
               /\ pass'[p].pc \in {"rejected", "await_ready", "await_fetch", "thrown"})
              => store' = store]_vars

\* A pass that has thrown on a failed fetch.
C6_Witness ==
    \E p \in PassIds : pass[p].pc = "thrown" /\ FetchFailed(p)

----------------------------------------------------------------------------
(* C7 *)

\* C7: the error a pass throws on a failed fetch is, for the missing-access
\* code, a new Error with an explanatory message that is not the error raised,
\* and for every other code the very error value the remote store raised.
C7_FetchErrorsClassified ==
    \A p \in PassIds :
       pass[p].pc = "thrown" =>
          /\ pass[p].raised # None
          /\ pass[p].error # None
          /\ IF pass[p].raised[1].code = MissingAccess
             THEN /\ pass[p].error[1] # pass[p].raised[1]
                  /\ pass[p].error[1].origin = "Error"
                  /\ pass[p].error[1].message # pass[p].raised[1].message
             ELSE pass[p].error[1] = pass[p].raised[1]

\* A pass that has thrown on a missing-access failure.
C7_Witness ==
    \E p \in PassIds :
       /\ pass[p].pc = "thrown"
       /\ pass[p].raised # None
       /\ pass[p].raised[1].code = MissingAccess

----------------------------------------------------------------------------
(* C8 *)

CreateSet(p) == { k \in 1..Len(Desired) : Desired[k].name \notin NamesOf(Snapshot(p)) }

DeleteSet(p) == { k \in 1..Len(Snapshot(p)) : Snapshot(p)[k].name \notin NamesOf(Desired) }

UpdateSet(p) ==
    { k \in 1..Len(Desired) :
         /\ Desired[k].name \in NamesOf(Snapshot(p))
         /\ isCommandModified(PairOf(p, Desired[k].name), Desired[k]) }

Called(p, op, k) == \E j \in CallIdx(p, op) : calls[p][j].idx = k

\* C8: once its fetch has succeeded a pass never throws, whichever calls fail,
\* and when it has returned it holds a result record and every item of the
\* create, delete and update sets has received its call.
C8_FailureIsolation ==
    \A p \in PassIds :
       /\ FetchSucceeded(p) => pass[p].pc \notin {"thrown", "rejected"}
       /\ Returned(p) =>
             /\ pass[p].result # None
             /\ pass[p].error = None
             /\ \A k \in CreateSet(p) : Called(p, "create", k)
             /\ \A k \in DeleteSet(p) : Called(p, "delete", k)
             /\ \A k \in UpdateSet(p) : Called(p, "edit", k)

\* A returned pass in which a call failed and calls were made after it.
C8_Witness ==
    \E p \in PassIds :
       /\ Returned(p)
       /\ \E j \in Mutations(p) :
             /\ calls[p][j].status = "failed"
             /\ j < Len(calls[p])
             /\ calls[p][Len(calls[p])].op # calls[p][j].op

----------------------------------------------------------------------------
(* C9 *)

\* C9: the three counters equal the numbers of create, delete and edit calls
\* that completed without error, the result record reports those counters, and
\* each is at most the size of its set.
C9_CountsSuccesses ==
    \A p \in PassIds :
       /\ pass[p].createdCount = OkCount(p, "create")
       /\ pass[p].deletedCount = OkCount(p, "delete")
       /\ pass[p].updatedCommandCount = OkCount(p, "edit")
       /\ Returned(p) =>
             /\ pass[p].result[1].newCommandCount = OkCount(p, "create")
             /\ pass[p].result[1].deletedCommandCount = OkCount(p, "delete")
             /\ pass[p].result[1].updatedCommandCount = OkCount(p, "edit")
             /\ pass[p].result[1].newCommandCount <= Cardinality(CreateSet(p))
             /\ pass[p].result[1].deletedCommandCount <= Cardinality(DeleteSet(p))
             /\ pass[p].result[1].updatedCommandCount <= Cardinality(UpdateSet(p))

\* A returned pass with two create calls of which one failed.
C9_Witness ==
    \E p \in PassIds :
       /\ Returned(p)
       /\ Cardinality(CallIdx(p, "create")) = 2
       /\ pass[p].result[1].newCommandCount = 1

----------------------------------------------------------------------------
(* C10 *)

PhaseRank(op) ==
    IF op = "fetch" THEN 0
    ELSE IF op = "create" THEN 1
    ELSE IF op = "delete" THEN 2
    ELSE 3

\* C10: in the order the calls of a pass were issued no delete or edit precedes
\* a create and no edit precedes a delete, and every call but the last issued
\* has settled.
C10_PhaseOrder ==
    \A p \in PassIds :
       \A j, k \in 1..Len(calls[p]) :
          j < k =>
             /\ PhaseRank(calls[p][j].op) <= PhaseRank(calls[p][k].op)
             /\ calls[p][j].status # "pending"

\* A pass that has issued a create, then a delete, then an edit.
C10_Witness ==
    \E p \in PassIds :
       /\ CallIdx(p, "create") # {}
       /\ CallIdx(p, "delete") # {}
       /\ CallIdx(p, "edit") # {}

----------------------------------------------------------------------------
(* C11 *)

Pending(p) == { j \in 1..Len(calls[p]) : calls[p][j].status = "pending" }

\* C11: a pass has at most one call outstanding, and it is the call issued
\* last; the fetch is its first call and its only fetch; and the calls of one
\* kind are issued in the order of the list they come from, the desired list
\* for creates and edits and the snapshot for deletes.
C11_OneCallAtATime ==
    \A p \in PassIds :
       /\ Cardinality(Pending(p)) <= 1
       /\ Pending(p) \subseteq {Len(calls[p])}
       /\ CallIdx(p, "fetch") \subseteq {1}
       /\ \A j, k \in Mutations(p) :
             (j < k /\ calls[p][j].op = calls[p][k].op)
                => calls[p][j].idx < calls[p][k].idx

\* A pass whose second create call is outstanding, the first one settled.
C11_Witness ==
    \E p \in PassIds :
       /\ Cardinality(CallIdx(p, "create")) = 2
       /\ calls[p][Len(calls[p])].op = "create"
       /\ calls[p][Len(calls[p])].status = "pending"

----------------------------------------------------------------------------
(* C12 *)

\* C12: a pass has issued no call unless the client is ready and its ready
\* gate has opened; a ready listener exists only while the client is not ready,
\* for a pass that waits at the gate; a pass waiting at a closed gate holds
\* exactly one listener, and every other pass holds none.
C12_ReadyGate ==
    \A p \in PassIds :
       /\ calls[p] # <<>> => (clientReady /\ pass[p].ready)
       /\ pass[p].ready => clientReady
       /\ Listening(p) # {} =>
             (~clientReady /\ pass[p].pc = "await_ready" /\ ~pass[p].ready)
       /\ Cardinality(Listening(p))
             = IF pass[p].pc = "await_ready" /\ ~pass[p].ready THEN 1 ELSE 0

\* A pass started on a client that is not ready: it waits with its one
\* listener and has issued no call.
C12_Witness ==
    \E p \in PassIds :
       /\ pass[p].pc = "await_ready"
       /\ ~clientReady
       /\ Len(listeners) = 1
       /\ listeners[1] = p
       /\ calls[p] = <<>>

----------------------------------------------------------------------------
(* C13 *)

\* C13: every started pass ends, as a rejection, a throw or a return; a
\* rejected pass has made no call, a pass that has thrown has made no call but
\* a fetch that failed, and a returned pass holds a result record and no error.
C13_Terminates ==
    /\ \A p \in PassIds : (pass[p].pc # "idle") ~> (pass[p].pc \in Ended)
    /\ [](\A p \in PassIds :
            /\ pass[p].pc = "rejected" => (calls[p] = <<>> /\ pass[p].result = None)
            /\ pass[p].pc = "thrown" =>
                  (~FetchSucceeded(p) /\ Mutations(p) = {} /\ pass[p].result = None)
            /\ pass[p].pc = "returned" =>
                  (FetchSucceeded(p) /\ pass[p].result # None /\ pass[p].error = None))

\* A pass that waited for the client, fetched, had a call fail and returned.
C13_Witness ==
    \E p \in PassIds :
       /\ Returned(p)
       /\ \E j \in Mutations(p) : calls[p][j].status = "failed"

----------------------------------------------------------------------------
(* C14 *)

\* The calls of a pass in the order they were issued, without their outcomes.
Signature(p) ==
    [j \in 1..Len(calls[p]) |->
        <<calls[p][j].op, calls[p][j].idx, calls[p][j].name, calls[p][j].id>>]

\* C14: nothing keeps a second pass from starting while the first is under
\* way, and each pass acts on the snapshot it fetched whatever the other has
\* done to the registry since: two returned passes with equal snapshots have
\* issued the same calls, and a create call is issued for a name the snapshot
\* lacks even when the registry holds it by now.
C14_OwnStaleSnapshot ==
    /\ \A p, q \in PassIds :
          (Returned(p) /\ Returned(q) /\ Snapshot(p) = Snapshot(q))
             => Signature(p) = Signature(q)
    /\ \A p \in PassIds :
          Returned(p) => \A k \in CreateSet(p) : Called(p, "create", k)

\* Both passes fetched the same snapshot and both have created the same name.
C14_Witness ==
    /\ Snapshot(1) = Snapshot(2)
    /\ FetchSucceeded(1)
    /\ FetchSucceeded(2)
    /\ \E j \in CallIdx(1, "create"), k \in CallIdx(2, "create") :
          /\ calls[1][j].name = calls[2][k].name
          /\ calls[1][j].scope = calls[2][k].scope
          /\ calls[1][j].name \notin NamesOf(Snapshot(1))
          /\ calls[1][j].status = "ok"
          /\ calls[2][k].status = "ok"

----------------------------------------------------------------------------
(* C15 *)

\* The fields isCommandModified reads are the same in both.
SameCompared(previousCommand, newCommand) ==
    /\ previousCommand.description = newCommand.description
    /\ previousCommand.defaultMemberPermissions = newCommand.defaultMemberPermissions
    /\ previousCommand.nsfw = newCommand.nsfw
    /\ previousCommand.options = newCommand.options

\* C15: a desired command that differs from its snapshot command only in its
\* name localizations, or only in dmPermission, has received an edit call when
\* the pass has returned.
C15_DetectsDocumented ==
    \A p \in PassIds :
       Returned(p) =>
          \A k \in 1..Len(Desired) :
             ( /\ Desired[k].name \in NamesOf(Snapshot(p))
               /\ SameCompared(PairOf(p, Desired[k].name), Desired[k])
               /\ \/ PairOf(p, Desired[k].name).nameLocalizations
                        # Desired[k].nameLocalizations
                  \/ PairOf(p, Desired[k].name).dmPermission # Desired[k].dmPermission )
             => Called(p, "edit", k)

----------------------------------------------------------------------------
(* C16 *)

\* C16: every call of a pass is made for the scope of its options, its snapshot
\* is the registry of that scope as it was when the fetch settled, its delete
\* and edit calls name commands of that snapshot, and no step changes the
\* registry of another scope.
C16_ScopeConfined ==
    /\ [](\A p \in PassIds :
            \A j \in 1..Len(calls[p]) :
               /\ calls[p][j].scope = Scope(options)
               /\ calls[p][j].op \in {"delete", "edit"}
                     => calls[p][j].id \in IdsOf(Snapshot(p)))
    /\ [][ /\ \A s \in Scopes \ {Scope(options)} : store'[s] = store[s]
           /\ \A p \in PassIds :
                 (pass[p].pc = "await_fetch" /\ pass'[p].pc \notin {"await_fetch", "thrown"})
                    => Snapshot(p)' = store[Scope(options)] ]_vars

\* A pass for the guild that has created and deleted there while the global
\* registry holds commands.
C16_Witness ==
    \E p \in PassIds :
       /\ options.guildId = "g1"
       /\ store["global"] # <<>>
       /\ OkCount(p, "create") > 0
       /\ OkCount(p, "delete") > 0

----------------------------------------------------------------------------
(* C17 *)

Occurrences(name) == { k \in 1..Len(Desired) : Desired[k].name = name }

CallsNamed(p, op, name) == { j \in CallIdx(p, op) : calls[p][j].name = name }

\* C17 as stated: a create or edit call is only ever issued for the first
\* desired command of its name.
C17_Original ==
    \A p \in PassIds :
       \A j \in CallIdx(p, "create") \cup CallIdx(p, "edit") :
          \A h \in 1..(calls[p][j].idx - 1) : Desired[h].name # calls[p][j].name

\* C17, amended: the desired list is not deduplicated. When a pass has
\* returned, a name absent from the snapshot has received as many create calls
\* as the desired list has commands of that name, a name the snapshot holds has
\* received no create call and at most one edit call for each of them, and the
\* pass holds no error.
C17_EveryOccurrence ==
    \A p \in PassIds :
       Returned(p) =>
          /\ pass[p].error = None
          /\ \A name \in NamesOf(Desired) :
                /\ Cardinality(CallsNamed(p, "create", name))
                      = IF name \in NamesOf(Snapshot(p)) THEN 0
                        ELSE Cardinality(Occurrences(name))
                /\ Cardinality(CallsNamed(p, "edit", name))
                      <= IF name \in NamesOf(Snapshot(p))
                         THEN Cardinality(Occurrences(name)) ELSE 0

\* A returned pass that created the same name twice, from two desired commands.
C17_Witness ==
    \E p \in PassIds :
       /\ Returned(p)
       /\ \E name \in NamesOf(Desired) :
             /\ Cardinality(Occurrences(name)) = 2
             /\ Cardinality({ j \in CallsNamed(p, "create", name) :
                                calls[p][j].status = "ok" }) = 2

----------------------------------------------------------------------------
(* C18 *)

\* C18: a desired command that declares no nsfw and whose snapshot command has
\* nsfw = false, the two equal in description, defaultMemberPermissions and
\* options, has received no edit call.
C18_NsfwDefaulted ==
    \A p \in PassIds :
       \A k \in 1..Len(Desired) :
          ( /\ FetchSucceeded(p)
            /\ Desired[k].name \in NamesOf(Snapshot(p))
            /\ Desired[k].nsfw = None
            /\ PairOf(p, Desired[k].name).nsfw = Some(FALSE)
            /\ PairOf(p, Desired[k].name).description = Desired[k].description
            /\ PairOf(p, Desired[k].name).defaultMemberPermissions
                  = Desired[k].defaultMemberPermissions
            /\ PairOf(p, Desired[k].name).options = Desired[k].options )
          => ~Called(p, "edit", k)

----------------------------------------------------------------------------
(* C19 *)

\* The option lists hold the same options, each name once, in another order.
Reordered(existing, opts) ==
    /\ existing # opts
    /\ Len(existing) = Len(opts)
    /\ \A j, k \in 1..Len(opts) : opts[j].name = opts[k].name => j = k
    /\ { existing[k] : k \in 1..Len(existing) } = { opts[k] : k \in 1..Len(opts) }

\* The desired command k and its snapshot command differ in the order of their
\* options and in none of the other fields compared.
ReorderedOnly(p, k) ==
    /\ FetchSucceeded(p)
    /\ Desired[k].name \in NamesOf(Snapshot(p))
    /\ PairOf(p, Desired[k].name).description = Desired[k].description
    /\ PairOf(p, Desired[k].name).defaultMemberPermissions
          = Desired[k].defaultMemberPermissions
    /\ PairOf(p, Desired[k].name).nsfw = Desired[k].nsfw
    /\ Reordered(Coalesce(PairOf(p, Desired[k].name).options), Coalesce(Desired[k].options))

\* C19 as stated: a desired command whose only change is the order of its
\* options has received an edit call when the pass has returned.
C19_Positional ==
    \A p \in PassIds :
       \A k \in 1..Len(Desired) :
          (Returned(p) /\ ReorderedOnly(p, k)) => Called(p, "edit", k)

\* C19, amended: the options are matched by name, so a desired command whose
\* only change is the order of its options never receives an edit call.
C19_NameKeyed ==
    \A p \in PassIds :
       \A k \in 1..Len(Desired) :
          ReorderedOnly(p, k) => ~Called(p, "edit", k)

\* A returned pass over a desired command whose options are those of its
\* snapshot command in another order.
C19_Witness ==
    \E p \in PassIds :
       /\ Returned(p)
       /\ \E k \in 1..Len(Desired) : ReorderedOnly(p, k)

----------------------------------------------------------------------------
(* C20 *)

CalledSet(p, op) == { calls[p][j].idx : j \in CallIdx(p, op) }

\* C20: a pass fetches once; once fetched its snapshot never changes; its
\* delete and edit calls name snapshot commands and never a name it created;
\* and when it has returned the delete and edit calls issued are those of the
\* delete and update sets of that snapshot, whatever the creates did, and the
\* count of current commands reported is the size of that snapshot.
C20_InitialSnapshot ==
    /\ [](\A p \in PassIds :
            /\ Cardinality(CallIdx(p, "fetch")) <= 1
            /\ \A j \in CallIdx(p, "delete") \cup CallIdx(p, "edit") :
                  /\ calls[p][j].id \in IdsOf(Snapshot(p))
                  /\ CallsNamed(p, "create", calls[p][j].name) = {}
            /\ Returned(p) =>
                  /\ Cardinality(CallIdx(p, "fetch")) = 1
                  /\ CalledSet(p, "delete") = DeleteSet(p)
                  /\ CalledSet(p, "edit") = UpdateSet(p)
                  /\ pass[p].result[1].currentCommandCount = Len(Snapshot(p)))
    /\ [][\A p \in PassIds : FetchSucceeded(p) => Snapshot(p)' = Snapshot(p)]_vars

\* A returned pass that created a command and went on to delete or edit, its
\* reported count of current commands no longer the size of the registry.
C20_Witness ==
    \E p \in PassIds :
       /\ Returned(p)
       /\ OkCount(p, "create") > 0
       /\ CallIdx(p, "delete") \cup CallIdx(p, "edit") # {}
       /\ pass[p].result[1].currentCommandCount # Len(store[Scope(options)])

----------------------------------------------------------------------------
(* C21 *)

NamesCalled(p, op) == { calls[p][j].name : j \in CallIdx(p, op) }

\* C21: when the desired names are unique and the snapshot names are unique,
\* every name is the target of at most one create, delete or edit call of a
\* pass: the names created, deleted and edited are pairwise disjoint, no call
\* is issued twice for the same item, and so none is issued again after it
\* failed.
C21_OneMutationPerName ==
    \A p \in PassIds :
       (UniqueNames(Desired) /\ UniqueNames(Snapshot(p))) =>
          /\ NamesCalled(p, "create") \cap NamesCalled(p, "delete") = {}
          /\ NamesCalled(p, "create") \cap NamesCalled(p, "edit") = {}
          /\ NamesCalled(p, "delete") \cap NamesCalled(p, "edit") = {}
          /\ \A j, k \in Mutations(p) :
                calls[p][j].name = calls[p][k].name => j = k
          /\ \A j \in Mutations(p) :
                calls[p][j].status = "failed" =>
                   \A k \in (j + 1)..Len(calls[p]) :
                      ~(calls[p][k].op = calls[p][j].op /\ calls[p][k].idx = calls[p][j].idx)

\* A returned pass over unique names that created, deleted and edited, one of
\* its calls having failed.
C21_Witness ==
    \E p \in PassIds :
       /\ Returned(p)
       /\ UniqueNames(Desired)
       /\ UniqueNames(Snapshot(p))
       /\ NamesCalled(p, "create") # {}
       /\ NamesCalled(p, "delete") # {}
       /\ NamesCalled(p, "edit") # {}
       /\ \E j \in Mutations(p) : calls[p][j].status = "failed"

----------------------------------------------------------------------------
(* C22 *)

\* C22: when the desired names are unique and every call of the only pass at
\* work has succeeded, then at its return the names registered in its scope are
\* the desired names, and the created count less the deleted count is the
\* change in the number of commands registered there.
C22_Converges ==
    \A p \in PassIds :
       (CleanPass(p) /\ UniqueNames(Desired)) =>
          /\ NamesOf(store[Scope(options)]) = NamesOf(Desired)
          /\ pass[p].result[1].newCommandCount - pass[p].result[1].deletedCommandCount
                = Len(store[Scope(options)]) - Len(Snapshot(p))

\* A returned pass over unique names, all its calls successful, that created
\* one command and deleted two.
C22_Witness ==
    \E p \in PassIds :
       /\ CleanPass(p)
       /\ UniqueNames(Desired)
       /\ pass[p].result[1].newCommandCount = 1
       /\ pass[p].result[1].deletedCommandCount = 2

====
